---- MODULE Spec2Model ----
(***************************************************************************)
(* A model of SMGA.py, the genre-distribution plugin: the pure helpers     *)
(* (tag extraction, the genre normalizer, the distribution and overlap     *)
(* calculators) as operators, and the plugin's widget (main, the analyze   *)
(* button, the deferred perform_analysis and its message boxes) as a       *)
(* state machine.                                                          *)
(*                                                                         *)
(* A Python str is a sequence of one-character strings, so that lower(),   *)
(* strip(), title(), split(';') and the substring test are computed and    *)
(* not assumed.  A Python exception is carried in the field exc of an      *)
(* operator's result ("none" when the call returns).                       *)
(***************************************************************************)
EXTENDS Integers, Sequences, FiniteSets, TLC

(* ------------------------------ bounds -------------------------------- *)

\* Files in the music directory.
MaxFiles == 2
\* Entries of a genre list handed to the normalizer directly.
MaxList == 2
\* Pending singleShot timers the model follows.
MaxTimers == 2

(* ----------------------------- Python str ----------------------------- *)

LowerChar(c) ==
    CASE c = "R" -> "r" [] c = "P" -> "p" [] c = "Q" -> "q" [] c = "M" -> "m"
      [] OTHER -> c

UpperChar(c) ==
    CASE c = "r" -> "R" [] c = "p" -> "P" [] c = "q" -> "Q" [] c = "m" -> "M"
      [] OTHER -> c

IsCased(c) == c \in {"r", "p", "q", "m", "R", "P", "Q", "M"}

\* str.lower()
str_lower(s) == [i \in 1..Len(s) |-> LowerChar(s[i])]

RECURSIVE str_lstrip(_)
str_lstrip(s) ==
    IF s # <<>> /\ Head(s) = " " THEN str_lstrip(Tail(s)) ELSE s

RECURSIVE str_rstrip(_)
str_rstrip(s) ==
    IF s # <<>> /\ s[Len(s)] = " " THEN str_rstrip(SubSeq(s, 1, Len(s) - 1)) ELSE s

\* str.strip()
str_strip(s) == str_rstrip(str_lstrip(s))

\* str.title(): a cased character is upper-cased when it follows an uncased
\* one (or starts the string) and lower-cased otherwise.
str_title(s) ==
    [i \in 1..Len(s) |->
        IF ~IsCased(s[i]) THEN s[i]
        ELSE IF i = 1 \/ ~IsCased(s[i - 1]) THEN UpperChar(s[i])
        ELSE LowerChar(s[i])]

\* str.split(';'): always at least one piece.
RECURSIVE str_split(_)
str_split(s) ==
    IF \A i \in 1..Len(s) : s[i] # ";" THEN <<s>>
    ELSE LET i == CHOOSE k \in 1..Len(s) :
                      s[k] = ";" /\ \A j \in 1..(k - 1) : s[j] # ";"
         IN <<SubSeq(s, 1, i - 1)>> \o str_split(SubSeq(s, i + 1, Len(s)))

\* keyword in genre_lower
str_contains(keyword, s) ==
    \E i \in 1..(Len(s) - Len(keyword) + 1) :
        SubSeq(s, i, i + Len(keyword) - 1) = keyword

(* ------------------------------ get_genre ----------------------------- *)

\* The tag keys get_genre looks for, in its order.
GenreTags == <<"genre", "GENRE", "TCON">>

NoExc == "none"

\* The try body of get_genre.  A file is [ext, opens, hasTags, tags]: opens
\* says what mutagen's File() does with it ("raises", "none": unsupported,
\* "ok"), tags maps tag keys to [isList, items]; items[1] is the text of
\* the value (genre[0] of a list value, str(genre) of any other).
get_genre_body(file) ==
    IF file.opens = "raises" THEN [exc |-> "MutagenError", val |-> <<>>]
    ELSE IF file.opens = "none" THEN [exc |-> NoExc, val |-> <<>>]
    ELSE IF ~file.hasTags THEN [exc |-> "TypeError", val |-> <<>>]
    ELSE IF \A i \in 1..Len(GenreTags) : GenreTags[i] \notin DOMAIN file.tags
         THEN [exc |-> NoExc, val |-> <<>>]
    ELSE LET i == CHOOSE k \in 1..Len(GenreTags) :
                      /\ GenreTags[k] \in DOMAIN file.tags
                      /\ \A j \in 1..(k - 1) : GenreTags[j] \notin DOMAIN file.tags
             genre == file.tags[GenreTags[i]]
         IN IF genre.isList /\ genre.items = <<>>
            THEN [exc |-> "IndexError", val |-> <<>>]
            ELSE LET pieces == str_split(genre.items[1])
                 IN [exc |-> NoExc,
                     val |-> [k \in 1..Len(pieces) |->
                                 str_lower(str_strip(pieces[k]))]]

\* A get_genre without its except clause.
get_genre_uncaught(file_path) == get_genre_body(file_path)

\* get_genre: any exception of the body is swallowed and [] returned.
get_genre(file_path) ==
    LET r == get_genre_body(file_path)
    IN IF r.exc # NoExc THEN [exc |-> NoExc, val |-> <<>>] ELSE r

(* ------------------------- map_to_simplified_genres ------------------- *)

\* The inner loop over simplified_keywords.items(): the first entry one of
\* whose keywords occurs in genre_lower; matched stays None when there is none.
first_match(genre_lower, items) ==
    LET hits == {k \in 1..Len(items) :
                    \E j \in 1..Len(items[k].keywords) :
                        str_contains(items[k].keywords[j], genre_lower)}
    IN IF hits = {} THEN [isNone |-> TRUE, name |-> <<>>]
       ELSE [isNone |-> FALSE,
             name |-> items[CHOOSE k \in hits : \A h \in hits : k <= h].name]

\* Python's truth value of matched: None and the empty str are both false.
truthy(matched) == ~matched.isNone /\ matched.name # <<>>

\* The outer loop, from entry i on, with the results so far.
RECURSIVE map_loop(_, _, _, _, _)
map_loop(complex_genres, items, i, simplified_genres, unmapped_count) ==
    IF i > Len(complex_genres)
    THEN [exc |-> NoExc, simplified_genres |-> simplified_genres,
          unmapped_count |-> unmapped_count]
    ELSE LET genre == complex_genres[i]
             matched == first_match(str_lower(str_strip(genre)), items)
         IN IF truthy(matched)
            THEN map_loop(complex_genres, items, i + 1,
                          Append(simplified_genres, matched.name), unmapped_count)
            ELSE map_loop(complex_genres, items, i + 1,
                          Append(simplified_genres, str_title(genre)),
                          unmapped_count + 1)

\* A normalizer that drops the entries it cannot map.
map_dropping(complex_genres, simplified_keywords) ==
    LET r == map_loop(complex_genres, simplified_keywords.items, 1, <<>>, 0)
    IN [r EXCEPT !.simplified_genres =
           SelectSeq(r.simplified_genres,
                     LAMBDA g : \E k \in 1..Len(simplified_keywords.items) :
                                    simplified_keywords.items[k].name = g)]

\* map_to_simplified_genres returns the pair (simplified_genres,
\* unmapped_count).  simplified_keywords is what json.load gave: a mapping
\* (its items in order) or some other JSON value, on which .items() raises
\* as soon as the loop body runs.
map_to_simplified_genres(complex_genres, simplified_keywords) ==
    IF complex_genres # <<>> /\ ~simplified_keywords.isMapping
    THEN [exc |-> "AttributeError", simplified_genres |-> <<>>, unmapped_count |-> 0]
    ELSE map_loop(complex_genres, simplified_keywords.items, 1, <<>>, 0)

(* ---------------------- calculate_genre_distribution ------------------ *)

\* collections.Counter of a list: its distinct entries in the order they
\* first occur, each with the number of its occurrences.
RECURSIVE first_seen(_)
first_seen(xs) ==
    IF xs = <<>> THEN <<>>
    ELSE LET front == SubSeq(xs, 1, Len(xs) - 1)
             last == xs[Len(xs)]
         IN IF \E i \in 1..Len(front) : front[i] = last
            THEN first_seen(front)
            ELSE Append(first_seen(front), last)

Counter(xs) ==
    LET ks == first_seen(xs)
    IN [i \in 1..Len(ks) |->
           [key |-> ks[i],
            count |-> Cardinality({j \in 1..Len(xs) : xs[j] = ks[i]})]]

\* {genre: (count / total_tracks) * 100 ...}: a percentage is the exact
\* quotient num/den.
percentages(genre_count, total_tracks) ==
    [i \in 1..Len(genre_count) |->
        [key |-> genre_count[i].key,
         pct |-> [num |-> genre_count[i].count * 100, den |-> total_tracks]]]

\* What genres.extend(genre_list) appends: the strings of a list, or the two
\* members (a list, an int) of the pair map_to_simplified_genres returns.
extend_list(genre_list) ==
    [i \in 1..Len(genre_list) |-> [t |-> "str", v |-> genre_list[i]]]

extend_pair(pair) ==
    <<[t |-> "list", v |-> pair.simplified_genres],
      [t |-> "int", v |-> pair.unmapped_count]>>

RECURSIVE distribution_loop(_, _, _, _, _)
distribution_loop(audio_files, use_simple_genres, simplified_keywords, i, genres) ==
    IF i > Len(audio_files) THEN [exc |-> NoExc, genres |-> genres]
    ELSE LET g == get_genre(audio_files[i])
         IN IF g.exc # NoExc THEN [exc |-> g.exc, genres |-> genres]
            ELSE IF use_simple_genres
            THEN LET m == map_to_simplified_genres(g.val, simplified_keywords)
                 IN IF m.exc # NoExc THEN [exc |-> m.exc, genres |-> genres]
                    ELSE distribution_loop(audio_files, use_simple_genres,
                             simplified_keywords, i + 1, genres \o extend_pair(m))
            ELSE distribution_loop(audio_files, use_simple_genres,
                     simplified_keywords, i + 1, genres \o extend_list(g.val))

\* The tuple calculate_genre_distribution returns: arity 3, with the total
\* 0, when nothing was counted and arity 2, without a total, otherwise.
\* Counter hashes its entries, and a list is unhashable.
calculate_genre_distribution(audio_files, use_simple_genres, simplified_keywords) ==
    LET l == distribution_loop(audio_files, use_simple_genres,
                               simplified_keywords, 1, <<>>)
        failed(e) == [exc |-> e, arity |-> 0, genre_count |-> <<>>,
                      genre_percentage |-> <<>>, total |-> <<>>]
    IN IF l.exc # NoExc THEN failed(l.exc)
       ELSE IF \E i \in 1..Len(l.genres) : l.genres[i].t = "list"
       THEN failed("TypeError")
       ELSE LET genre_count == Counter([i \in 1..Len(l.genres) |-> l.genres[i].v])
                total_tracks == Len(l.genres)
            IN IF total_tracks = 0
               THEN [exc |-> NoExc, arity |-> 3, genre_count |-> genre_count,
                     genre_percentage |-> <<>>, total |-> <<0>>]
               ELSE [exc |-> NoExc, arity |-> 2, genre_count |-> genre_count,
                     genre_percentage |-> percentages(genre_count, total_tracks),
                     total |-> <<>>]

(* --------------------------- calculate_overlap ------------------------ *)

RECURSIVE overlap_loop(_, _, _, _)
overlap_loop(audio_files, i, threshold, overlap_count) ==
    IF i > Len(audio_files) THEN [exc |-> NoExc, val |-> overlap_count]
    ELSE LET g == get_genre(audio_files[i])
         IN IF g.exc # NoExc THEN [exc |-> g.exc, val |-> overlap_count]
            ELSE overlap_loop(audio_files, i + 1, threshold,
                     IF Len(g.val) > threshold THEN overlap_count + 1
                     ELSE overlap_count)

\* An overlap that counts every tagged file (len(genres) > 0).
calculate_overlap_tagged(audio_files) == overlap_loop(audio_files, 1, 0, 0)

calculate_overlap(audio_files) == overlap_loop(audio_files, 1, 1, 0)

(* ------------------------------- inputs ------------------------------- *)

\* Sequences over S of length at most n.
SeqsUpTo(S, n) == UNION {[1..k -> S] : k \in 0..n}

Rock == <<"R", "r">>
Pop == <<"P", "p">>

Entry(name, keywords) == [name |-> name, keywords |-> keywords]
Mapping(items) == [isMapping |-> TRUE, items |-> items]

\* What simplified_genre.json may hold when it parses to a mapping: no
\* entry; entries with overlapping keywords, in both orders; an entry whose
\* name is the empty string; an empty keyword list and the empty keyword.
Taxonomies ==
    { Mapping(<<>>),
      Mapping(<<Entry(Rock, <<<<"r">>>>), Entry(Pop, <<<<"p">>, <<"q", " ", "q">>>>)>>),
      Mapping(<<Entry(Pop, <<<<"p">>>>), Entry(Rock, <<<<"r">>, <<"p">>>>)>>),
      Mapping(<<Entry(<<>>, <<<<"r">>>>), Entry(Pop, <<<<"r">>, <<"p">>>>)>>),
      Mapping(<<Entry(Rock, <<>>), Entry(Pop, <<<<>>>>)>>) }

\* A JSON value that is no mapping (an array, say).
NotMapping == [isMapping |-> FALSE, items |-> <<>>]

\* The resource simplified_genre.json: absent, not JSON, or some JSON value.
Configs ==
    {[state |-> "missing", value |-> NotMapping],
     [state |-> "unparseable", value |-> NotMapping],
     [state |-> "json", value |-> NotMapping]}
    \cup {[state |-> "json", value |-> t] : t \in Taxonomies}

\* Genre strings handed to the normalizer directly.
RawGenres ==
    { <<>>, <<"r">>, <<"P", " ">>, <<"q">>, <<"q", " ", "q">>,
      <<" ", "Q", "R">>, <<"r", "p">> }

TagList(items) == [isList |-> TRUE, items |-> items]
TagText(text) == [isList |-> FALSE, items |-> <<text>>]

AudioFile(ext, tags) == [ext |-> ext, opens |-> "ok", hasTags |-> TRUE, tags |-> tags]
BadFile(ext, opens, hasTags) ==
    [ext |-> ext, opens |-> opens, hasTags |-> hasTags, tags |-> <<>>]

\* The files a directory may hold: one that is no audio file; one File()
\* raises on; one it does not support; one without a tag container; one
\* with tags but no genre; and two tagged ones: [" R", "p"] under genre,
\* and "q;q;r p" under GENRE with a TCON that loses to it.
Files ==
    { AudioFile(<<".", "t", "x", "t">>, "genre" :> TagList(<<<<"r">>>>)),
      BadFile(<<".", "M", "P", "3">>, "raises", FALSE),
      BadFile(<<".", "w", "a", "v">>, "none", FALSE),
      BadFile(<<".", "o", "g", "g">>, "ok", FALSE),
      AudioFile(<<".", "f", "l", "a", "c">>, "title" :> TagList(<<<<"q">>>>)),
      AudioFile(<<".", "m", "p", "3">>, "genre" :> TagList(<<<<" ", "R">>, <<"p">>>>)),
      AudioFile(<<".", "m", "4", "a">>,
                "TCON" :> TagList(<<<<"p">>>>)
                @@ "GENRE" :> TagText(<<"q", ";", "q", ";", "r", " ", "p">>)) }

\* The same, and a file whose genre is an empty list, and one tagged "R ;q"
\* under TCON alone.
MoreFiles ==
    Files \cup
    { AudioFile(<<".", "f", "l", "a", "c">>, "genre" :> TagList(<<>>)),
      AudioFile(<<".", "m", "4", "a">>, "TCON" :> TagText(<<"R", " ", ";", "q">>)) }

\* The one directory that holds files; os.walk of any other yields nothing.
MusicDir == <<"m">>

(* -------------------------------- state ------------------------------- *)

VARIABLES
    config,               \* the resource simplified_genre.json
    ui_file,              \* whether SMGA.ui exists
    fs,                   \* the files under MusicDir, in os.walk's order
    view,                 \* main: "unloaded", then "widget", "None" or "raised"
    simplified_keywords,  \* what load_simplified_genres returned
    directory_input,      \* lineEdit_directory's text
    simple_radio,         \* radioButton.isChecked()
    analyze_button,       \* pushButton_analyze: [text, enabled]
    timers,               \* pending QTimer.singleShot(100, perform_analysis)
    modals,               \* the open modal dialogs, the innermost last
    overlap_label,        \* genre_overlap_value's text: <<>> until set
    results_table,        \* tableView_results' model: <<>> until set
    log,                  \* the lines the last handler logged
    map_call,             \* the last direct call of map_to_simplified_genres
    dist_call,            \* the last direct call of calculate_genre_distribution
    overlap_call          \* the last direct call of calculate_overlap

widget_vars ==
    <<view, directory_input, simple_radio, analyze_button, timers, modals,
      overlap_label, results_table, log>>

call_vars == <<map_call, dist_call, overlap_call>>

vars == <<config, ui_file, fs, simplified_keywords, widget_vars, call_vars>>

(* ----------------------------- get_audio_files ------------------------ *)

audio_extensions ==
    { <<".", "m", "p", "3">>, <<".", "f", "l", "a", "c">>, <<".", "w", "a", "v">>,
      <<".", "a", "a", "c">>, <<".", "m", "4", "a">>, <<".", "o", "g", "g">>,
      <<".", "w", "m", "a">> }

os_walk(directory) == IF directory = MusicDir THEN fs ELSE <<>>

get_audio_files(directory) ==
    SelectSeq(os_walk(directory), LAMBDA file : str_lower(file.ext) \in audio_extensions)

(* ---------------------- the helpers called directly ------------------- *)

Unloaded ==
    /\ view = "unloaded"
    /\ directory_input = <<>>
    /\ simple_radio = FALSE
    /\ analyze_button = [text |-> "Analyze", enabled |-> TRUE]
    /\ timers = 0
    /\ modals = <<>>
    /\ overlap_label = <<>>
    /\ results_table = <<>>
    /\ log = <<>>

NoCalls == map_call = <<>> /\ dist_call = <<>> /\ overlap_call = <<>>

InitNorm ==
    /\ config \in {c \in Configs : c.value.isMapping}
    /\ simplified_keywords = config.value
    /\ ui_file = TRUE
    /\ fs = <<>>
    /\ Unloaded
    /\ NoCalls

CallMap ==
    /\ \E complex_genres \in SeqsUpTo(RawGenres, MaxList) :
          map_call' = <<[complex_genres |-> complex_genres,
                         ret |-> map_to_simplified_genres(complex_genres,
                                                          simplified_keywords)]>>
    /\ UNCHANGED <<config, ui_file, fs, simplified_keywords, widget_vars,
                   dist_call, overlap_call>>

NextNorm == CallMap

SpecNorm == InitNorm /\ [][NextNorm]_vars

InitDist ==
    /\ config \in {c \in Configs : c.value.isMapping}
    /\ simplified_keywords = config.value
    /\ ui_file = TRUE
    /\ fs \in SeqsUpTo(MoreFiles, MaxFiles)
    /\ Unloaded
    /\ NoCalls

CallDistribution ==
    /\ \E use_simple_genres \in BOOLEAN :
          dist_call' = <<[use_simple_genres |-> use_simple_genres,
                          ret |-> calculate_genre_distribution(
                                      get_audio_files(MusicDir), use_simple_genres,
                                      simplified_keywords)]>>
    /\ UNCHANGED <<config, ui_file, fs, simplified_keywords, widget_vars,
                   map_call, overlap_call>>

CallOverlap ==
    /\ overlap_call' = <<[ret |-> calculate_overlap(get_audio_files(MusicDir))]>>
    /\ UNCHANGED <<config, ui_file, fs, simplified_keywords, widget_vars,
                   map_call, dist_call>>

NextDist == CallDistribution \/ CallOverlap

SpecDist == InitDist /\ [][NextDist]_vars

(* ------------------------------ the widget ---------------------------- *)

Line(level, msg, args) == [level |-> level, msg |-> msg, args |-> args]

Top(stack) == stack[Len(stack)]
Popped(stack) == SubSeq(stack, 1, Len(stack) - 1)

\* The message boxes perform_analysis opens.
AnalysisBoxes == {"warning", "information", "critical"}

ReadyButton == [text |-> "Analyze", enabled |-> TRUE]

\* main, with smga_main_logic.  A missing resource is caught, reported and
\* None returned; a JSONDecodeError of json.load is not caught.  The two
\* message boxes of this path are shown before any widget exists.
main ==
    /\ view = "unloaded"
    /\ \E parent_has_layout \in BOOLEAN :
        LET started == <<Line("info", "SMGA Plugin initialized.", <<>>)>>
            ui == Append(started, Line("info", "Initializing SMGA UI...", <<>>))
        IN IF config.state = "missing"
           THEN /\ log' = Append(started, Line("error", "Simplified genre file not found", <<>>))
                /\ view' = "None"
                /\ UNCHANGED simplified_keywords
           ELSE IF config.state = "unparseable"
           THEN /\ log' = started
                /\ view' = "raised"
                /\ UNCHANGED simplified_keywords
           ELSE /\ simplified_keywords' = config.value
                /\ IF ~ui_file
                   THEN /\ log' = Append(ui, Line("error", "UI file not found", <<>>))
                        /\ view' = "None"
                   ELSE /\ log' = Append(ui,
                               IF parent_has_layout
                               THEN Line("warning", "Parent widget already has a layout.", <<>>)
                               ELSE Line("info", "Setting a new layout for the parent widget.", <<>>))
                        /\ view' = "widget"
    /\ directory_input' = <<>>
    /\ simple_radio' = FALSE
    /\ UNCHANGED <<config, ui_file, fs, analyze_button, timers, modals,
                   overlap_label, results_table, call_vars>>

\* Whether the widget takes clicks and keys: it does not under a modal dialog.
Interactive == view = "widget" /\ modals = <<>>

\* select_directory up to its file dialog, which runs an event loop of its own.
select_directory ==
    /\ Interactive
    /\ modals' = Append(modals, "file_dialog")
    /\ UNCHANGED <<config, ui_file, fs, simplified_keywords, view, directory_input,
                   simple_radio, analyze_button, timers, overlap_label,
                   results_table, log, call_vars>>

\* select_directory from the dialog's return on: cancelled (""), the music
\* directory, or another one.
select_directory_return ==
    /\ view = "widget"
    /\ modals # <<>> /\ Top(modals) = "file_dialog"
    /\ modals' = Popped(modals)
    /\ \E directory \in {<<>>, MusicDir, <<"e">>} :
          IF directory # <<>>
          THEN /\ directory_input' = directory
               /\ log' = <<Line("info", "Directory selected", <<>>)>>
          ELSE /\ log' = <<Line("warning", "No directory selected.", <<>>)>>
               /\ UNCHANGED directory_input
    /\ UNCHANGED <<config, ui_file, fs, simplified_keywords, view, simple_radio,
                   analyze_button, timers, overlap_label, results_table, call_vars>>

\* The user types into lineEdit_directory.
edit_directory ==
    /\ Interactive
    /\ \E text \in {<<" ">>, <<" ", "m">>} : directory_input' = text
    /\ UNCHANGED <<config, ui_file, fs, simplified_keywords, view, simple_radio,
                   analyze_button, timers, modals, overlap_label, results_table,
                   log, call_vars>>

\* The user picks radioButton (simple) or radioButton_complex.
pick_radio ==
    /\ Interactive
    /\ \E simple \in BOOLEAN : simple_radio' = simple
    /\ UNCHANGED <<config, ui_file, fs, simplified_keywords, view, directory_input,
                   analyze_button, timers, modals, overlap_label, results_table,
                   log, call_vars>>

\* What analyze does whatever the button's state.
analyze_effects(button) ==
    /\ analyze_button' = button
    /\ log' = <<Line("info",
                     IF simple_radio THEN "Simple Analysis Started."
                     ELSE "Complex Analysis Started.", <<>>)>>
    /\ timers' = timers + 1
    /\ UNCHANGED <<config, ui_file, fs, simplified_keywords, view, directory_input,
                   simple_radio, modals, overlap_label, results_table, call_vars>>

\* An analyze that leaves the button enabled.
analyze_keeps_enabled ==
    /\ Interactive
    /\ analyze_button.enabled
    /\ timers < MaxTimers
    /\ analyze_effects([text |-> "Analyzing...", enabled |-> TRUE])

\* analyze, the button's clicked handler: a disabled button emits no click.
analyze ==
    /\ Interactive
    /\ analyze_button.enabled
    /\ timers < MaxTimers
    /\ analyze_effects([text |-> "Analyzing...", enabled |-> FALSE])

\* [genre for file in audio_files for genre in get_genre(file)]
RECURSIVE genres_loop(_, _, _)
genres_loop(audio_files, i, genres) ==
    IF i > Len(audio_files) THEN [exc |-> NoExc, val |-> genres]
    ELSE LET g == get_genre(audio_files[i])
         IN IF g.exc # NoExc THEN [exc |-> g.exc, val |-> genres]
            ELSE genres_loop(audio_files, i + 1, genres \o g.val)

\* sorted(..., key=percentage, reverse=True): descending and stable.
RECURSIVE sorted_desc(_)
sorted_desc(rows) ==
    IF rows = <<>> THEN <<>>
    ELSE LET front == sorted_desc(SubSeq(rows, 1, Len(rows) - 1))
             row == rows[Len(rows)]
             \* row goes after every row whose percentage is not smaller
             n == Cardinality({i \in 1..Len(front) :
                      front[i].pct.num * row.pct.den >= row.pct.num * front[i].pct.den})
         IN SubSeq(front, 1, n) \o <<row>> \o SubSeq(front, n + 1, Len(front))

\* display_results: the rows of the table's new model; the percentage is
\* shown with two decimals (here in hundredths, rounded).
display_results(genre_count, genre_percentage) ==
    LET rows == [i \in 1..Len(genre_count) |->
                    [key |-> genre_count[i].key, count |-> genre_count[i].count,
                     pct |-> genre_percentage[i].pct]]
        shown == sorted_desc(rows)
    IN [i \in 1..Len(shown) |->
           [genre |-> str_title(shown[i].key), count |-> shown[i].count,
            percentage |-> (2 * 100 * shown[i].pct.num + shown[i].pct.den)
                               \div (2 * shown[i].pct.den)]]

Outcome(exit, box, lines, label, table) ==
    [exit |-> exit, box |-> box, log |-> lines, label |-> label, table |-> table]

Raised(exc) ==
    Outcome("exception", "critical",
            <<Line("error", "An error occurred during analysis", <<>>)>>, <<>>, <<>>)

\* perform_analysis from line 176 on.
analyze_files(audio_files, use_simple_genres) ==
    LET raw == genres_loop(audio_files, 1, <<>>)
        mapped == IF use_simple_genres /\ raw.exc = NoExc
                  THEN map_to_simplified_genres(raw.val, simplified_keywords)
                  ELSE [exc |-> raw.exc, simplified_genres |-> raw.val,
                        unmapped_count |-> 0]
        genres == mapped.simplified_genres
        unmapped_count == mapped.unmapped_count
        genre_count == Counter(genres)
        total_tracks == Len(genres)
        overlap == calculate_overlap(audio_files)
        done(kind) == Line("info", kind, <<Len(audio_files), Len(genre_count)>>)
    IN IF raw.exc # NoExc THEN Raised(raw.exc)
       ELSE IF mapped.exc # NoExc THEN Raised(mapped.exc)
       ELSE IF overlap.exc # NoExc THEN Raised(overlap.exc)
       ELSE Outcome("completed", "none",
                IF use_simple_genres
                THEN <<done("Simple Analysis Complete")>>
                     \o (IF unmapped_count > 0
                         THEN <<Line("warning", "songs could not be simplified into a genre.",
                                     <<unmapped_count>>)>>
                         ELSE <<>>)
                ELSE <<done("Complex Analysis Complete")>>,
                <<overlap.val>>,
                <<display_results(genre_count, percentages(genre_count, total_tracks))>>)

NoAudioFiles ==
    Outcome("no_audio", "information",
            <<Line("info", "No audio files found in the selected directory.", <<>>)>>,
            <<>>, <<>>)

\* A try body without the check for an empty file list.
perform_analysis_try_unchecked ==
    LET selected_directory == str_strip(directory_input)
    IN IF selected_directory = <<>>
       THEN Outcome("no_directory", "warning",
                <<Line("warning", "No directory selected for analysis.", <<>>)>>,
                <<>>, <<>>)
       ELSE analyze_files(get_audio_files(selected_directory), simple_radio)

\* The try body of perform_analysis, with its except clause.
perform_analysis_try ==
    LET selected_directory == str_strip(directory_input)
    IN IF selected_directory = <<>>
       THEN Outcome("no_directory", "warning",
                <<Line("warning", "No directory selected for analysis.", <<>>)>>,
                <<>>, <<>>)
       ELSE LET audio_files == get_audio_files(selected_directory)
            IN IF audio_files = <<>> THEN NoAudioFiles
               ELSE analyze_files(audio_files, simple_radio)

\* perform_analysis, run by the timer: to its end when it completes, and up
\* to the message box (which runs an event loop of its own) when it does not.
perform_analysis ==
    /\ view = "widget"
    /\ timers > 0
    /\ timers' = timers - 1
    /\ LET r == perform_analysis_try
       IN /\ log' = r.log
          /\ IF r.exit = "completed"
             THEN /\ overlap_label' = r.label
                  /\ results_table' = r.table
                  /\ analyze_button' = ReadyButton
                  /\ UNCHANGED modals
             ELSE /\ modals' = Append(modals, r.box)
                  /\ UNCHANGED <<overlap_label, results_table, analyze_button>>
    /\ UNCHANGED <<config, ui_file, fs, simplified_keywords, view, directory_input,
                   simple_radio, call_vars>>

\* The message box is closed: perform_analysis returns through its finally.
perform_analysis_finally ==
    /\ view = "widget"
    /\ modals # <<>> /\ Top(modals) \in AnalysisBoxes
    /\ modals' = Popped(modals)
    /\ analyze_button' = ReadyButton
    /\ UNCHANGED <<config, ui_file, fs, simplified_keywords, view, directory_input,
                   simple_radio, timers, overlap_label, results_table, log, call_vars>>

Init ==
    /\ config \in Configs
    /\ ui_file \in BOOLEAN
    /\ fs \in SeqsUpTo(Files, MaxFiles)
    /\ simplified_keywords = NotMapping
    /\ Unloaded
    /\ NoCalls

Next ==
    \/ main
    \/ select_directory
    \/ select_directory_return
    \/ edit_directory
    \/ pick_radio
    \/ analyze
    \/ perform_analysis
    \/ perform_analysis_finally

Spec == Init /\ [][Next]_vars

(* ------------------- claims about the helpers themselves -------------- *)

\* The genre list one file contributes: its tags as extracted, passed
\* through the normalizer when simplify is set.
FileGenres(file, simplify) ==
    IF simplify
    THEN map_loop(get_genre_body(file).val, simplified_keywords.items, 1, <<>>, 0).simplified_genres
    ELSE get_genre_body(file).val

RECURSIVE Concat(_)
Concat(lists) == IF lists = <<>> THEN <<>> ELSE Head(lists) \o Concat(Tail(lists))

AllGenres(files, simplify) ==
    Concat([i \in 1..Len(files) |-> FileGenres(files[i], simplify)])

Occurrences(label, genres) == Cardinality({i \in 1..Len(genres) : genres[i] = label})

\* genre_count gives every label of genres, once, its number of occurrences.
CountsAre(genre_count, genres) ==
    /\ \A i \in 1..Len(genres) : \E k \in 1..Len(genre_count) :
           genre_count[k].key = genres[i]
    /\ \A k \in 1..Len(genre_count) :
           /\ genre_count[k].count = Occurrences(genre_count[k].key, genres)
           /\ genre_count[k].count > 0
           /\ \A h \in 1..Len(genre_count) : genre_count[h].key = genre_count[k].key => h = k

RECURSIVE SumNum(_)
SumNum(genre_percentage) ==
    IF genre_percentage = <<>> THEN 0
    ELSE Head(genre_percentage).pct.num + SumNum(Tail(genre_percentage))

\* genre_percentage gives every label of genre_count count/total*100, and
\* the percentages sum to 100; it is empty when total is 0.
PercentagesAre(genre_percentage, genre_count, total) ==
    IF total = 0 THEN genre_percentage = <<>>
    ELSE /\ Len(genre_percentage) = Len(genre_count)
         /\ \A k \in 1..Len(genre_count) :
               /\ genre_percentage[k].key = genre_count[k].key
               /\ genre_percentage[k].pct.den = total
               /\ genre_percentage[k].pct.num = genre_count[k].count * 100
         /\ SumNum(genre_percentage) = 100 * total

\* C1: calculate_genre_distribution returns, for either value of the
\* simplify flag, a count per label equal to the label's occurrences in the
\* concatenated per-file genre lists, and a total equal to the sum of the
\* per-file list lengths.
C1_DistributionCountsEveryOccurrence ==
    \A i \in 1..Len(dist_call) :
        LET c == dist_call[i]
            genres == AllGenres(get_audio_files(MusicDir), c.use_simple_genres)
        IN /\ c.ret.exc = NoExc
           /\ CountsAre(c.ret.genre_count, genres)
           /\ c.ret.total = <<Len(genres)>>

\* C3: the normalizer's output has the length of its input, and its i-th
\* entry is what the i-th input entry alone maps to.
C3_NormalizerKeepsEveryEntry ==
    \A i \in 1..Len(map_call) :
        LET c == map_call[i]
            alone(genre) ==
                map_loop(<<genre>>, simplified_keywords.items, 1, <<>>, 0).simplified_genres[1]
        IN /\ c.ret.exc = NoExc
           /\ Len(c.ret.simplified_genres) = Len(c.complex_genres)
           /\ \A k \in 1..Len(c.complex_genres) :
                  c.ret.simplified_genres[k] = alone(c.complex_genres[k])

\* C3's case: a two-entry list of which one entry maps and one does not.
C3_Witness ==
    \E i \in 1..Len(map_call) :
        /\ Len(map_call[i].complex_genres) = 2
        /\ map_call[i].ret.unmapped_count = 1
        /\ \E k \in 1..Len(simplified_keywords.items) :
               simplified_keywords.items[k].name = map_call[i].ret.simplified_genres[2]

\* Whether a taxonomy entry has a keyword that occurs in the lower-cased,
\* trimmed raw string.
Matches(entry, raw) ==
    \E j \in 1..Len(entry.keywords) :
        str_contains(entry.keywords[j], str_lower(str_strip(raw)))

\* C4: the normalizer's output for a raw string is the name of the first
\* taxonomy entry, in the taxonomy's order, that matches it.
C4_FirstMatchWins ==
    \A i \in 1..Len(map_call) :
        LET c == map_call[i]
            items == simplified_keywords.items
        IN \A k \in 1..Len(c.complex_genres) : \A j \in 1..Len(items) :
               (/\ Matches(items[j], c.complex_genres[k])
                /\ \A h \in 1..(j - 1) : ~Matches(items[h], c.complex_genres[k]))
               => c.ret.simplified_genres[k] = items[j].name

\* C7: in calculate_genre_distribution the percentage map is empty when the
\* total number of genre occurrences is 0 and gives count/total*100 per
\* label, summing to 100, when it is positive.
C7_PercentagesGuarded ==
    \A i \in 1..Len(dist_call) :
        LET c == dist_call[i]
            genres == AllGenres(get_audio_files(MusicDir), c.use_simple_genres)
        IN /\ c.ret.exc = NoExc
           /\ PercentagesAre(c.ret.genre_percentage, c.ret.genre_count, Len(genres))

\* Every entry of the taxonomy has a name that is not the empty string.
EntriesNamed ==
    \A k \in 1..Len(simplified_keywords.items) : simplified_keywords.items[k].name # <<>>

\* Supporting C1: with the simplify flag clear the call returns and its
\* counts are the occurrences in the concatenated raw lists.
C1_RawCountsAreOccurrences ==
    \A i \in 1..Len(dist_call) :
        ~dist_call[i].use_simple_genres =>
            /\ dist_call[i].ret.exc = NoExc
            /\ CountsAre(dist_call[i].ret.genre_count,
                         AllGenres(get_audio_files(MusicDir), FALSE))

\* Supporting C4: first-match-wins holds of a taxonomy without an empty name.
C4_FirstMatchWinsWhenNamed == EntriesNamed => C4_FirstMatchWins

\* Supporting C7: with the simplify flag clear the percentages are as claimed.
C7_RawPercentagesGuarded ==
    \A i \in 1..Len(dist_call) :
        ~dist_call[i].use_simple_genres =>
            PercentagesAre(dist_call[i].ret.genre_percentage,
                           dist_call[i].ret.genre_count,
                           Len(AllGenres(get_audio_files(MusicDir), FALSE)))

(* ------------------------ claims about an analysis -------------------- *)

LogHas(msg) == \E i \in 1..Len(log) : log[i].msg = msg

\* The last handler to log was a perform_analysis that ran to completion.
Completed(simple) ==
    LogHas(IF simple THEN "Simple Analysis Complete" ELSE "Complex Analysis Complete")

\* The audio files of the one directory that has any.
AudioFiles == get_audio_files(MusicDir)

\* The message boxes of perform_analysis that are open.
Running == Cardinality({i \in 1..Len(modals) : modals[i] \in AnalysisBoxes})

\* C2: from analyze until the deferred perform_analysis has finished the
\* button is disabled and no second analysis is pending or running, and the
\* button is enabled again once perform_analysis has returned, by whichever
\* exit.
C2_ButtonDisabledWhileBusy ==
    view = "widget" =>
        /\ timers + Running <= 1
        /\ analyze_button.enabled <=> (timers + Running = 0)

\* C2's case: perform_analysis has left through its except clause and the
\* button is enabled again.
C2_Witness ==
    /\ view = "widget"
    /\ LogHas("An error occurred during analysis")
    /\ modals = <<>>
    /\ analyze_button = ReadyButton

\* C5: the unmapped count of a simplified run is the number of raw genre
\* entries of the run's files that no taxonomy entry matches.
C5_UnmappedCountsUnmatchedEntries ==
    Completed(TRUE) =>
        LET raw == AllGenres(AudioFiles, FALSE)
            items == simplified_keywords.items
            expected == Cardinality({i \in 1..Len(raw) :
                            \A j \in 1..Len(items) : ~Matches(items[j], raw[i])})
            warned == {i \in 1..Len(log) :
                          log[i].msg = "songs could not be simplified into a genre."}
        IN IF expected = 0 THEN warned = {}
           ELSE \E i \in warned : log[i].args = <<expected>>

\* Supporting C5: the unmapped count is as claimed with a taxonomy without
\* an empty name.
C5_UnmappedCountWhenNamed == EntriesNamed => C5_UnmappedCountsUnmatchedEntries

\* The files get_genre is to return [] for: unreadable, unsupported, without
\* a tag container, without a genre tag.
Failing(file) ==
    \/ file.opens # "ok"
    \/ ~file.hasTags
    \/ DOMAIN file.tags \cap {"genre", "GENRE", "TCON"} = {}

MultiGenre(files) ==
    Cardinality({i \in 1..Len(files) : Len(get_genre_body(files[i]).val) > 1})

\* C6: the overlap count shown is the number of files whose raw genre list
\* has more than one entry, after a simple and after a complex analysis alike.
C6_OverlapCountsMultiGenreFiles ==
    /\ overlap_label \in {<<>>, <<MultiGenre(AudioFiles)>>}
    /\ \A simple \in BOOLEAN :
           Completed(simple) => overlap_label = <<MultiGenre(AudioFiles)>>

\* C6's case: a simple analysis of a one-genre file and a three-genre file.
C6_Witness ==
    /\ Completed(TRUE)
    /\ Len(AudioFiles) = 2
    /\ \E i \in 1..2 : Len(get_genre_body(AudioFiles[i]).val) = 1
    /\ overlap_label = <<1>>

\* Supporting C7: after perform_analysis the table is empty when the total
\* is 0 (nothing is divided) and shows count/total*100 per label otherwise.
C7_PercentagesInAnalysis ==
    \A simple \in BOOLEAN :
        Completed(simple) =>
            LET total == Len(AllGenres(AudioFiles, simple))
                rows == results_table[1]
            IN IF total = 0 THEN rows = <<>>
               ELSE \A i \in 1..Len(rows) :
                        /\ rows[i].percentage * 2 * total <= rows[i].count * 20000 + total
                        /\ rows[i].percentage * 2 * total > rows[i].count * 20000 - total

\* C8 as stated: a run over audio files without a single genre occurrence
\* does not end as a successful analysis.
C8_NoGenreTagsIsNotSuccess ==
    \A simple \in BOOLEAN :
        Completed(simple) => Len(AllGenres(AudioFiles, FALSE)) > 0

\* C8 as amended: a run with a directory signals "no audio files found"
\* exactly when the directory yields none, and otherwise, unless an
\* exception is caught, completes as a success, also when the files hold no
\* genre at all.
C8_AnalysisOutcomes ==
    [][timers' < timers =>
        LET selected_directory == str_strip(directory_input)
            audio_files == SelectSeq(os_walk(selected_directory),
                               LAMBDA file : str_lower(file.ext) \in audio_extensions)
            taxonomy_fails == /\ simple_radio
                              /\ ~simplified_keywords.isMapping
                              /\ AllGenres(audio_files, FALSE) # <<>>
        IN IF selected_directory = <<>>
           THEN modals' = Append(modals, "warning") /\ UNCHANGED results_table
           ELSE IF audio_files = <<>>
           THEN /\ modals' = Append(modals, "information")
                /\ LogHas("No audio files found in the selected directory.")'
                /\ UNCHANGED results_table
           ELSE IF taxonomy_fails
           THEN modals' = Append(modals, "critical")
           ELSE /\ UNCHANGED modals
                /\ Completed(simple_radio)'
                /\ log'[1].args[1] = Len(audio_files)
                /\ Len(results_table'[1]) = log'[1].args[2]
    ]_vars

\* C8's case: an analysis of audio files without any genre has completed,
\* with an empty table.
C8_Witness ==
    /\ \E simple \in BOOLEAN : Completed(simple)
    /\ AudioFiles # <<>>
    /\ results_table = <<<<>>>>
    /\ modals = <<>>

\* C9: when the taxonomy resource is missing or cannot be parsed, main
\* reports the failure and returns None; nothing propagates to the host.
C9_TaxonomyFailureReported ==
    (view # "unloaded" /\ config.state \in {"missing", "unparseable"}) =>
        /\ view = "None"
        /\ \E i \in 1..Len(log) : log[i].level = "error"

\* The files of the run that have genres to give.
Tagged == SelectSeq(AudioFiles, LAMBDA file : ~Failing(file))

\* C10: get_genre returns [] without raising for every failing file, no
\* such file makes the run end in the except clause, and a completed run's
\* counts, total and overlap are those of the other files, all of them.
C10_FileFailuresNeverAbort ==
    /\ \A i \in 1..Len(fs) :
           /\ get_genre(fs[i]).exc = NoExc
           /\ Failing(fs[i]) => get_genre(fs[i]).val = <<>>
    /\ LogHas("An error occurred during analysis") => ~simplified_keywords.isMapping
    /\ \A simple \in BOOLEAN :
           Completed(simple) =>
               LET genre_count == Counter(AllGenres(Tagged, simple))
                   total == Len(AllGenres(Tagged, simple))
               IN /\ results_table =
                         <<display_results(genre_count, percentages(genre_count, total))>>
                  /\ overlap_label = <<MultiGenre(Tagged)>>
                  /\ log[1].args = <<Len(AudioFiles), Len(genre_count)>>

\* C10's case: a completed analysis of a directory with a failing file and
\* a tagged one, whose genres are in the table.
C10_Witness ==
    /\ \E simple \in BOOLEAN : Completed(simple)
    /\ \E i \in 1..Len(AudioFiles) : Failing(AudioFiles[i])
    /\ Tagged # <<>>
    /\ results_table # <<>> /\ results_table[1] # <<>>

====
